---- MODULE Spec2Model ----
(***************************************************************************)
(* Memo data access layer: the seven server actions of                     *)
(* src/app/actions/memos.ts over the public.memos table of the migration   *)
(* 20251105065016_create_memos_table.sql.                                  *)
(*                                                                         *)
(* Text values are sequences of one-character strings, so that             *)
(* toLowerCase, includes and ILIKE are computed character by character.    *)
(* An optional value (a form field that may be omitted, a nullable         *)
(* column) is a sequence of length at most one: <<>> is undefined / NULL,  *)
(* <<v>> is the value v.                                                   *)
(*                                                                         *)
(* A server action is an async function with one await, on the storage     *)
(* call.  A call takes two steps: up to the await, where the request is    *)
(* sent and the storage acts on it, and from the await on, where the       *)
(* answer is handled and the function returns.  Calls of different callers *)
(* interleave at these steps.                                              *)
(***************************************************************************)
EXTENDS Integers, Sequences, FiniteSets

VARIABLES
    memos,      \* the rows of public.memos
    nextId,     \* number of ids gen_random_uuid() has issued so far, plus one
    clock,      \* the storage clock NOW() reads
    pending,    \* per caller, the call that is suspended at its await: what
                \* was asked and the answer the storage call has for it
    last,       \* the call that has just returned: its arguments and what it
                \* gave; Idle once the result has been taken
    sole,       \* the caller of a write, while the request of that write is
                \* the latest step of any call
    recent,     \* a write that succeeded, while its request and its return
                \* are the latest two steps of any call
    deleted     \* the ids deleteMemo has returned true for

vars == <<memos, nextId, clock, pending, last, sole, recent, deleted>>

----------------------------------------------------------------------------
(* Bounds of the model.                                                    *)

\* ids gen_random_uuid() may issue: 1..MaxId
MaxId == 2
\* the storage clock runs over 0..MaxClock
MaxClock == 1

----------------------------------------------------------------------------
(* Optional values.                                                        *)

None == <<>>
Some(v) == <<v>>
IsSome(o) == Len(o) = 1
Get(o) == o[1]

----------------------------------------------------------------------------
(* Input values.                                                           *)

\* the callers whose calls interleave
Callers == { "A", "B" }

\* the ids a caller can name: those issued so far, whether their row is
\* still stored or not
KnownIds == 1..(nextId - 1)

\* MemoFormData: title, content, category?, tags?
Form(title, content, category, tags) ==
    [title |-> title, content |-> content, category |-> category, tags |-> tags]

\* the forms callers submit: category and tags each given and omitted
FormData ==
    { Form(<<"a", ",">>, <<"c">>, None, None),
      Form(<<"B">>, <<"c">>, Some("work"), Some(<< <<"b", "_">> >>)) }

\* the queries callers pass to searchMemos: the empty one, a letter, and
\* the characters the filter syntax and LIKE give a meaning to
Queries == { <<>>, <<",">>, <<"_">> }

\* the category filters a caller passes to getMemosByCategory
CategoryFilters == { "all", "work" }

\* what the storage call does: answers, answers with an error, or rejects
Faults == { "none", "error", "throw" }

----------------------------------------------------------------------------
(* String functions of the JavaScript side.                                *)

\* String.prototype.toLowerCase, one character
LowerChar(c) ==
    CASE c = "A" -> "a"
      [] c = "B" -> "b"
      [] OTHER -> c

\* String.prototype.toLowerCase
ToLowerCase(s) == [i \in 1..Len(s) |-> LowerChar(s[i])]

\* String.prototype.includes
Includes(s, sub) ==
    \E i \in 0..(Len(s) - Len(sub)) : SubSeq(s, i + 1, i + Len(sub)) = sub

----------------------------------------------------------------------------
(* The memos table: schema defaults and the updated_at trigger.            *)

\* a migration whose default category is another one
DefaultCategoryMut == "work"

\* category TEXT NOT NULL DEFAULT 'personal'
DefaultCategory == "personal"

\* tags TEXT[] DEFAULT '{}'
DefaultTags == Some(<<>>)

\* the request body supabase-js sends: JSON.stringify drops the keys whose
\* value is undefined, so an omitted column is None here
JsonBody(title, content, category, tags) ==
    [title |-> Some(title), content |-> Some(content),
     category |-> category, tags |-> tags]

\* INSERT of one row: the columns the body names, the defaults for the rest;
\* created_at and updated_at both default to NOW()
InsertRow(body, id, now) ==
    [id |-> id,
     title |-> Get(body.title),
     content |-> Get(body.content),
     category |-> IF IsSome(body.category) THEN Get(body.category) ELSE DefaultCategory,
     tags |-> IF IsSome(body.tags) THEN body.tags ELSE DefaultTags,
     created_at |-> now,
     updated_at |-> now]

\* a trigger that stamps the wrong column: NEW.created_at = NOW()
update_created_at_column(new, now) == [new EXCEPT !.created_at = now]

\* BEFORE UPDATE trigger update_memos_updated_at: NEW.updated_at = NOW()
update_updated_at_column(new, now) == [new EXCEPT !.updated_at = now]

\* an UPDATE on a table without the trigger
UpdateRowNoTrigger(row, body, now) ==
    [row EXCEPT
        !.title = IF IsSome(body.title) THEN Get(body.title) ELSE @,
        !.content = IF IsSome(body.content) THEN Get(body.content) ELSE @,
        !.category = IF IsSome(body.category) THEN Get(body.category) ELSE @,
        !.tags = IF IsSome(body.tags) THEN body.tags ELSE @]

\* UPDATE of one row: SET the columns the body names, then the trigger
UpdateRow(row, body, now) ==
    update_updated_at_column(
        [row EXCEPT
            !.title = IF IsSome(body.title) THEN Get(body.title) ELSE @,
            !.content = IF IsSome(body.content) THEN Get(body.content) ELSE @,
            !.category = IF IsSome(body.category) THEN Get(body.category) ELSE @,
            !.tags = IF IsSome(body.tags) THEN body.tags ELSE @],
        now)

\* .eq('id', id)
EqId(table, id) == { r \in table : r.id = id }

\* .eq('category', category)
EqCategory(table, category) == { r \in table : r.category = category }

\* .order('created_at', { ascending: false }): every order of the rows that
\* is descending in created_at (rows of equal created_at come in any order)
OrderByCreatedAtDesc(rows) ==
    { s \in [1..Cardinality(rows) -> rows] :
        /\ \A i, j \in DOMAIN s : i # j => s[i] # s[j]
        /\ \A i, j \in DOMAIN s : i < j => s[i].created_at >= s[j].created_at }

\* what an awaited storage call gives: it resolves to { data, error }, or it
\* rejects
Response(data, error) == [data |-> data, error |-> error, rejected |-> FALSE]
ErrorResponse == Response(None, TRUE)
RejectedResponse == [data |-> None, error |-> FALSE, rejected |-> TRUE]

\* the answer of a storage call under a fault: ok is its answer without one
Answer(fault, ok) ==
    CASE fault = "none" -> ok
      [] fault = "error" -> ErrorResponse
      [] fault = "throw" -> RejectedResponse

\* .single(): the one row, or an error when the result has no row or several
Single(rows) ==
    IF Cardinality(rows) = 1
    THEN Response(Some(CHOOSE r \in rows : TRUE), FALSE)
    ELSE ErrorResponse

----------------------------------------------------------------------------
(* The filter of searchMemos as the storage reads it.                      *)

TitleIlike == "title.ilike."
ContentIlike == "content.ilike."

\* `%${query}%`
SearchPattern(query) == <<"%">> \o query \o <<"%">>

\* `title.ilike.${searchPattern},content.ilike.${searchPattern}`
OrFilter(query) ==
    <<TitleIlike>> \o SearchPattern(query) \o <<",">>
        \o <<ContentIlike>> \o SearchPattern(query)

\* the conditions of an or=(...) list are separated by commas
RECURSIVE SplitCommas(_)
SplitCommas(s) ==
    IF \A i \in DOMAIN s : s[i] # ","
    THEN <<s>>
    ELSE LET i == CHOOSE k \in DOMAIN s :
                      s[k] = "," /\ \A m \in 1..(k - 1) : s[m] # ","
         IN  <<SubSeq(s, 1, i - 1)>> \o SplitCommas(SubSeq(s, i + 1, Len(s)))

\* a condition is column.operator.value; anything else is a syntax error
IsCondition(piece) ==
    /\ piece # <<>>
    /\ Head(piece) \in { TitleIlike, ContentIlike }
    /\ \A i \in 2..Len(piece) : piece[i] \notin { TitleIlike, ContentIlike }

\* the storage rejects the request when a piece of the list is no condition
FilterParses(filter) ==
    \A i \in DOMAIN SplitCommas(filter) : IsCondition(SplitCommas(filter)[i])

\* in a like/ilike value the storage API reads * as %
StarToPercent(p) == [i \in 1..Len(p) |-> IF p[i] = "*" THEN "%" ELSE p[i]]

\* SQL LIKE: % is any run of characters, _ any one character, \ makes the
\* next character literal
RECURSIVE Like(_, _)
Like(s, p) ==
    IF p = <<>> THEN s = <<>>
    ELSE IF Head(p) = "%"
         THEN \E k \in 0..Len(s) : Like(SubSeq(s, k + 1, Len(s)), Tail(p))
    ELSE IF Head(p) = "_"
         THEN s # <<>> /\ Like(Tail(s), Tail(p))
    ELSE IF Head(p) = "\\" /\ Len(p) > 1
         THEN s # <<>> /\ Head(s) = p[2] /\ Like(Tail(s), SubSeq(p, 3, Len(p)))
    ELSE s # <<>> /\ Head(s) = Head(p) /\ Like(Tail(s), Tail(p))

\* SQL ILIKE: LIKE without regard to case
Ilike(s, p) == Like(ToLowerCase(s), ToLowerCase(p))

\* one condition of the list, on one row
ConditionHolds(row, piece) ==
    LET value == IF Head(piece) = TitleIlike THEN row.title ELSE row.content
    IN  Ilike(value, StarToPercent(Tail(piece)))

\* .or(filter): the rows for which some condition of the list holds
OrRows(table, filter) ==
    { r \in table :
        \E i \in DOMAIN SplitCommas(filter) :
            ConditionHolds(r, SplitCommas(filter)[i]) }

\* a delete that removes no row
DeleteNothing(table, id) == table

\* DELETE ... WHERE id = id
DeleteRows(table, id) == table \ EqId(table, id)

----------------------------------------------------------------------------
(* The server actions, as functions of what the storage call gave.         *)

\* how a function body ends: with a return value or with an exception;
\* revalidated tells whether it called revalidatePath('/')
Return(v, revalidated) == [kind |-> "return", value |-> v, revalidated |-> revalidated]
Throw == [kind |-> "throw", value |-> None, revalidated |-> FALSE]

\* a body without the try/catch around it
NoCatch(body, sentinel) == body

\* try { body } catch (error) { console.error(...); return sentinel }
TryCatch(body, sentinel) ==
    IF body.kind = "throw" THEN Return(sentinel, body.revalidated) ELSE body

\* the row as a Memo: tags: memo.tags ?? []
ToMemo(row) ==
    [id |-> row.id,
     title |-> row.title,
     content |-> row.content,
     category |-> row.category,
     tags |-> IF IsSome(row.tags) THEN Get(row.tags) ELSE <<>>,
     createdAt |-> row.created_at,
     updatedAt |-> row.updated_at]

\* (data as MemoRow[]).map(...)
MapMemos(rows) == [i \in 1..Len(rows) |-> ToMemo(rows[i])]

\* tags: formData.tags || []
TagsOrEmpty(tags) == Some(IF IsSome(tags) THEN Get(tags) ELSE <<>>)

\* insertData of createMemo
InsertData(formData) ==
    JsonBody(formData.title, formData.content, formData.category,
             TagsOrEmpty(formData.tags))

\* updateData with tags: formData.tags, without the || []
UpdateDataTagsAsGiven(formData) ==
    JsonBody(formData.title, formData.content, formData.category, formData.tags)

\* updateData of updateMemo
UpdateData(formData) ==
    JsonBody(formData.title, formData.content, formData.category,
             TagsOrEmpty(formData.tags))

getMemos(r) ==
    TryCatch(
        IF r.rejected \/ r.error THEN Throw
        ELSE IF ~IsSome(r.data) THEN Return(<<>>, FALSE)
        ELSE Return(MapMemos(Get(r.data)), FALSE),
        <<>>)

\* getMemoById with a select list that leaves tags out
getMemoByIdWithoutTags(r) ==
    TryCatch(
        IF r.rejected THEN Throw
        ELSE IF r.error THEN Return(None, FALSE)
        ELSE IF ~IsSome(r.data) THEN Return(None, FALSE)
        ELSE Return(Some(ToMemo([Get(r.data) EXCEPT !.tags = None])), FALSE),
        None)

getMemoById(r) ==
    TryCatch(
        IF r.rejected THEN Throw
        ELSE IF r.error THEN Return(None, FALSE)
        ELSE IF ~IsSome(r.data) THEN Return(None, FALSE)
        ELSE Return(Some(ToMemo(Get(r.data))), FALSE),
        None)

createMemo(r) ==
    TryCatch(
        IF r.rejected \/ r.error THEN Throw
        ELSE IF ~IsSome(r.data) THEN Return(None, FALSE)
        ELSE Return(Some(ToMemo(Get(r.data))), TRUE),
        None)

updateMemo(r) ==
    TryCatch(
        IF r.rejected \/ r.error THEN Throw
        ELSE IF ~IsSome(r.data) THEN Return(None, FALSE)
        ELSE Return(Some(ToMemo(Get(r.data))), TRUE),
        None)

\* deleteMemo calling revalidatePath('/') before it looks at the error
deleteMemoRevalidatingFirst(r) ==
    TryCatch(
        IF r.rejected THEN Throw
        ELSE IF r.error THEN [Throw EXCEPT !.revalidated = TRUE]
        ELSE Return(TRUE, TRUE),
        FALSE)

deleteMemo(r) ==
    TryCatch(
        IF r.rejected \/ r.error THEN Throw
        ELSE Return(TRUE, TRUE),
        FALSE)

\* the filter of searchMemos on the rows the storage returned
MatchesQuery(memo, query) ==
    LET q == ToLowerCase(query)
        matchesTitle == Includes(ToLowerCase(memo.title), q)
        matchesContent == Includes(ToLowerCase(memo.content), q)
        matchesTags ==
            /\ IsSome(memo.tags)
            /\ \E i \in DOMAIN Get(memo.tags) :
                   Includes(ToLowerCase(Get(memo.tags)[i]), q)
    IN  matchesTitle \/ matchesContent \/ matchesTags

\* Array.prototype.filter with MatchesQuery
RECURSIVE FilterRows(_, _)
FilterRows(rows, query) ==
    IF rows = <<>> THEN <<>>
    ELSE (IF MatchesQuery(Head(rows), query) THEN <<Head(rows)>> ELSE <<>>)
             \o FilterRows(Tail(rows), query)

searchMemos(r, query) ==
    TryCatch(
        IF r.rejected \/ r.error THEN Throw
        ELSE IF ~IsSome(r.data) THEN Return(<<>>, FALSE)
        ELSE Return(MapMemos(FilterRows(Get(r.data), query)), FALSE),
        <<>>)

getMemosByCategory(r) ==
    TryCatch(
        IF r.rejected \/ r.error THEN Throw
        ELSE IF ~IsSome(r.data) THEN Return(<<>>, FALSE)
        ELSE Return(MapMemos(Get(r.data)), FALSE),
        <<>>)
----------------------------------------------------------------------------
(* The state machine: two actions per server action, one up to its await   *)
(* and one from it, and the clock.                                         *)

\* no call of the caller is suspended
NoCall == [op |-> "none", args |-> <<>>, fault |-> "none", answer |-> None]

\* the record of a call that returned: what was asked, what the storage
\* call did, and what the caller got (ret, or an exception when threw)
Called(call, end) ==
    [op |-> call.op, args |-> call.args, fault |-> call.fault,
     ret |-> end.value, threw |-> end.kind = "throw",
     revalidated |-> end.revalidated]

\* no call has returned whose result has not been taken
Idle ==
    [op |-> "none", args |-> <<>>, fault |-> "none",
     ret |-> None, threw |-> FALSE, revalidated |-> FALSE]

\* the call is a createMemo or updateMemo that returned a memo, or a
\* deleteMemo that returned true
IsSuccessfulWrite(call) ==
    \/ call.op \in {"createMemo", "updateMemo"} /\ IsSome(call.ret)
    \/ call.op = "deleteMemo" /\ call.ret = TRUE

\* the id of the row a successful write wrote or removed
WrittenId(call) ==
    IF call.op = "createMemo" THEN Get(call.ret).id ELSE call.args.id

\* what recent becomes when call returns: the id, the form data and the
\* result of a successful write, and of an update the category and the
\* updated_at the row had before it
Remember(call) ==
    IF IsSuccessfulWrite(call)
    THEN Some([op |-> call.op,
               id |-> WrittenId(call),
               data |-> IF call.op = "deleteMemo" THEN None ELSE Some(call.args.data),
               was |-> IF call.op = "updateMemo"
                       THEN Some([category |-> Get(call.args.before).category,
                                  updated_at |-> Get(call.args.before).updated_at])
                       ELSE None,
               ret |-> call.ret])
    ELSE None

Init ==
    /\ memos = {}
    /\ nextId = 1
    /\ clock = 0
    /\ pending = [c \in Callers |-> NoCall]
    /\ last = Idle
    /\ sole = "none"
    /\ recent = None
    /\ deleted = {}

\* time passes at the storage
Tick ==
    /\ last = Idle
    /\ clock < MaxClock
    /\ clock' = clock + 1
    /\ UNCHANGED <<memos, nextId, pending, last, sole, recent, deleted>>

\* the result of the call that returned is taken
TakeResult ==
    /\ last # Idle
    /\ last' = Idle
    /\ UNCHANGED <<memos, nextId, clock, pending, sole, recent, deleted>>

\* caller c has no call suspended, and no result waits to be taken
Free(c) == last = Idle /\ pending[c] = NoCall

\* caller c enters op and runs it up to its await: the request goes out,
\* the storage call has answer for it, and the function is suspended; of a
\* call whose storage call fails the arguments are not kept
Suspend(c, op, args, fault, answer) ==
    /\ pending' = [pending EXCEPT ![c] =
                       [op |-> op, args |-> IF fault = "none" THEN args ELSE <<>>,
                        fault |-> fault, answer |-> answer]]
    /\ sole' = IF op \in {"createMemo", "updateMemo", "deleteMemo"} THEN c ELSE "none"
    /\ recent' = None
    /\ UNCHANGED <<last, deleted>>

\* the call of caller c, an op, is suspended, and no result waits to be taken
Suspended(c, op) == last = Idle /\ pending[c].op = op

\* the call of caller c runs on from its await to its return end
Resume(c, end) ==
    /\ last' = Called(pending[c], end)
    /\ pending' = [pending EXCEPT ![c] = NoCall]
    /\ recent' = IF sole = c THEN Remember(last') ELSE None
    /\ sole' = "none"
    /\ deleted' = IF last'.op = "deleteMemo" /\ last'.ret = TRUE
                  THEN deleted \cup {last'.args.id} ELSE deleted
    /\ UNCHANGED <<memos, nextId, clock>>

GetMemos(c) ==
    /\ Free(c)
    /\ \E rows \in OrderByCreatedAtDesc(memos), fault \in Faults :
           Suspend(c, "getMemos", <<>>, fault,
                   Answer(fault, Response(Some(rows), FALSE)))
    /\ UNCHANGED <<memos, nextId, clock>>

GetMemosResume(c) ==
    /\ Suspended(c, "getMemos")
    /\ Resume(c, getMemos(pending[c].answer))

\* args.after is the successful write of this id that the call comes right
\* after, if there is one; args.gone is whether deleteMemo has returned
\* true for this id before the call
GetMemoById(c) ==
    /\ Free(c)
    /\ \E fault \in Faults, id \in KnownIds :
           Suspend(c, "getMemoById",
                   [id |-> id,
                    after |-> IF IsSome(recent) /\ Get(recent).id = id
                              THEN recent ELSE None,
                    gone |-> id \in deleted],
                   fault,
                   Answer(fault, Single(EqId(memos, id))))
    /\ UNCHANGED <<memos, nextId, clock>>

GetMemoByIdResume(c) ==
    /\ Suspended(c, "getMemoById")
    /\ Resume(c, getMemoById(pending[c].answer))

CreateMemo(c) ==
    /\ Free(c)
    /\ \E fault \in Faults, formData \in FormData :
        LET row == InsertRow(InsertData(formData), nextId, clock)
        IN  /\ fault = "none" => nextId <= MaxId
            /\ memos' = IF fault = "none" THEN memos \cup {row} ELSE memos
            /\ nextId' = IF fault = "none" THEN nextId + 1 ELSE nextId
            /\ Suspend(c, "createMemo", [data |-> formData], fault,
                       Answer(fault, Single({row})))
    /\ UNCHANGED clock

CreateMemoResume(c) ==
    /\ Suspended(c, "createMemo")
    /\ Resume(c, createMemo(pending[c].answer))

\* args.before is the row of this id as it was before the storage call, if
\* there was one
UpdateMemo(c) ==
    /\ Free(c)
    /\ \E fault \in Faults, id \in KnownIds, formData \in FormData :
        LET old == EqId(memos, id)
            new == { UpdateRow(row, UpdateData(formData), clock) : row \in old }
        IN  /\ memos' = IF fault = "none" THEN (memos \ old) \cup new ELSE memos
            /\ Suspend(c, "updateMemo",
                       [id |-> id, data |-> formData,
                        before |-> IF old = {} THEN None
                                   ELSE Some(CHOOSE row \in old : TRUE)],
                       fault,
                       Answer(fault, Single(new)))
    /\ UNCHANGED <<nextId, clock>>

UpdateMemoResume(c) ==
    /\ Suspended(c, "updateMemo")
    /\ Resume(c, updateMemo(pending[c].answer))

DeleteMemo(c) ==
    /\ Free(c)
    /\ \E fault \in Faults, id \in KnownIds :
        /\ memos' = IF fault = "none" THEN DeleteRows(memos, id) ELSE memos
        /\ Suspend(c, "deleteMemo", [id |-> id], fault,
                   Answer(fault, Response(None, FALSE)))
    /\ UNCHANGED <<nextId, clock>>

DeleteMemoResume(c) ==
    /\ Suspended(c, "deleteMemo")
    /\ Resume(c, deleteMemo(pending[c].answer))

SearchMemos(c) ==
    /\ Free(c)
    /\ \E query \in Queries :
        LET filter == OrFilter(query)
            args == [query |-> query]
        IN  IF FilterParses(filter)
            THEN \E rows \in OrderByCreatedAtDesc(OrRows(memos, filter)),
                    fault \in Faults :
                     Suspend(c, "searchMemos", args, fault,
                             Answer(fault, Response(Some(rows), FALSE)))
            ELSE \E fault \in Faults :
                     Suspend(c, "searchMemos", args, fault,
                             Answer(fault, ErrorResponse))
    /\ UNCHANGED <<memos, nextId, clock>>

SearchMemosResume(c) ==
    /\ Suspended(c, "searchMemos")
    /\ Resume(c, searchMemos(pending[c].answer,
                             IF pending[c].fault = "none"
                             THEN pending[c].args.query ELSE <<>>))

GetMemosByCategory(c) ==
    /\ Free(c)
    /\ \E category \in CategoryFilters :
        \E rows \in OrderByCreatedAtDesc(
                        IF category # "all" THEN EqCategory(memos, category) ELSE memos),
           fault \in Faults :
            Suspend(c, "getMemosByCategory", [category |-> category], fault,
                    Answer(fault, Response(Some(rows), FALSE)))
    /\ UNCHANGED <<memos, nextId, clock>>

GetMemosByCategoryResume(c) ==
    /\ Suspended(c, "getMemosByCategory")
    /\ Resume(c, getMemosByCategory(pending[c].answer))

Next ==
    \/ Tick
    \/ TakeResult
    \/ \E c \in Callers : GetMemos(c)
    \/ \E c \in Callers : GetMemosResume(c)
    \/ \E c \in Callers : GetMemoById(c)
    \/ \E c \in Callers : GetMemoByIdResume(c)
    \/ \E c \in Callers : CreateMemo(c)
    \/ \E c \in Callers : CreateMemoResume(c)
    \/ \E c \in Callers : UpdateMemo(c)
    \/ \E c \in Callers : UpdateMemoResume(c)
    \/ \E c \in Callers : DeleteMemo(c)
    \/ \E c \in Callers : DeleteMemoResume(c)
    \/ \E c \in Callers : SearchMemos(c)
    \/ \E c \in Callers : SearchMemosResume(c)
    \/ \E c \in Callers : GetMemosByCategory(c)
    \/ \E c \in Callers : GetMemosByCategoryResume(c)

Spec == Init /\ [][Next]_vars

----------------------------------------------------------------------------
(* Vocabulary of the properties.                                           *)

ListOps == { "getMemos", "searchMemos", "getMemosByCategory" }
MemoOps == { "getMemoById", "createMemo", "updateMemo" }
ReadOps == { "getMemos", "getMemoById", "searchMemos", "getMemosByCategory" }
WriteOps == { "createMemo", "updateMemo", "deleteMemo" }

\* the value a call returns in place of a failure; a call's ret is compared
\* with the sentinel of its own op
IsSentinel(call) ==
    CASE call.op \in ListOps -> call.ret = <<>>
      [] call.op \in MemoOps -> call.ret = None
      [] call.op = "deleteMemo" -> call.ret = FALSE
      [] OTHER -> FALSE

\* text contains query as a case-insensitive substring
ContainsIgnoreCase(text, query) == Includes(ToLowerCase(text), ToLowerCase(query))

\* some tag of the row contains query as a case-insensitive substring
TagContains(row, query) ==
    /\ IsSome(row.tags)
    /\ \E i \in DOMAIN Get(row.tags) : ContainsIgnoreCase(Get(row.tags)[i], query)

\* in this step caller c enters op and runs it up to its await
Suspends(c, op) == pending[c] = NoCall /\ pending'[c].op = op

\* in this step the call of caller c, an op, runs from its await on
Resumes(c, op) == pending[c].op = op /\ pending'[c] = NoCall

\* the last call is a getMemoById, which the storage answered, of the id
\* that a successful op wrote, with the request and the return of that op
\* and the request of the getMemoById following one another and no step of
\* any other call between them
HasReadBack(op) ==
    /\ last.op = "getMemoById"
    /\ last.fault = "none"
    /\ IsSome(last.args.after)
    /\ Get(last.args.after).op = op

\* the form data names every field, with the values the row has
IdenticalPayload(formData, row) ==
    /\ formData.title = row.title
    /\ formData.content = row.content
    /\ formData.category = Some(row.category)
    /\ formData.tags = row.tags

----------------------------------------------------------------------------
(* C1: searchMemos(q) returns every memo that the table holds when the     *)
(* storage call reads it and whose title or content contains q as a        *)
(* case-insensitive substring, whatever characters q has, in descending    *)
(* createdAt order.  What the call returns is what searchMemos makes of    *)
(* the answer of the storage call.                                         *)
C1_SearchReturnsEveryMatch ==
    [][\A c \in Callers :
          (Suspends(c, "searchMemos") /\ pending'[c].fault = "none")
              => LET query == pending'[c].args.query
                     ret == searchMemos(pending'[c].answer, query).value
                 IN  /\ \A r \in memos :
                            (ContainsIgnoreCase(r.title, query)
                                 \/ ContainsIgnoreCase(r.content, query))
                                => \E i \in DOMAIN ret : ret[i].id = r.id
                     /\ \A i, j \in DOMAIN ret :
                            i < j => ret[i].createdAt >= ret[j].createdAt]_vars

(* C2: a memo that the table holds when the storage call reads it and that *)
(* matches q in a tag only, in neither title nor content, is not in the    *)
(* result of searchMemos(q), for every q.                                  *)
C2_TagOnlyMatchNotReturned ==
    [][\A c \in Callers :
          (Suspends(c, "searchMemos") /\ pending'[c].fault = "none")
              => LET query == pending'[c].args.query
                     ret == searchMemos(pending'[c].answer, query).value
                 IN  \A r \in memos :
                         (/\ TagContains(r, query)
                          /\ ~ContainsIgnoreCase(r.title, query)
                          /\ ~ContainsIgnoreCase(r.content, query))
                             => \A i \in DOMAIN ret : ret[i].id # r.id]_vars

(* C3: when the storage call reports an error or throws, none of the seven *)
(* operations throws to its caller, and each returns its sentinel: [] for  *)
(* the list operations, null for getMemoById, createMemo and updateMemo,   *)
(* false for deleteMemo.                                                   *)
C3_FailureGivesSentinel ==
    (last.op # "none" /\ last.fault # "none") => (~last.threw /\ IsSentinel(last))

C3_Witness ==
    /\ last.op = "deleteMemo"
    /\ last.fault = "throw"
    /\ last.ret = FALSE
    /\ ~last.threw
    /\ memos # {}
    /\ \E c \in Callers : pending[c].op = "getMemos"

(* C4 as stated: updateMemo(id, data) then getMemoById(id), with no other  *)
(* operation in between, returns a memo whose title, content, category and *)
(* tags equal data (an omitted category read as the default, omitted tags  *)
(* as []), and whose updatedAt is strictly greater than the updatedAt the  *)
(* memo had before the update.                                             *)
C4_ReadBackEqualsDataStrictlyLater ==
    HasReadBack("updateMemo")
        => LET update == Get(last.args.after)
               data == Get(update.data)
           IN  /\ IsSome(last.ret)
               /\ Get(last.ret).title = data.title
               /\ Get(last.ret).content = data.content
               /\ Get(last.ret).category =
                      (IF IsSome(data.category)
                       THEN Get(data.category) ELSE DefaultCategory)
               /\ Get(last.ret).tags =
                      (IF IsSome(data.tags) THEN Get(data.tags) ELSE <<>>)
               /\ Get(last.ret).updatedAt > Get(update.was).updated_at

(* C4 amended: updateMemo(id, data) that succeeds, then getMemoById(id),   *)
(* with no other operation in between, returns the memo updateMemo         *)
(* returned: title and content equal data, tags equal data.tags or [] when *)
(* omitted, category equals data.category or, when omitted, the category   *)
(* the memo had before, and updatedAt is never earlier than the updatedAt  *)
(* the memo had before; the storage sets updated_at to its clock at the    *)
(* update.                                                                 *)
C4_ReadBackAfterUpdate ==
    /\ [](HasReadBack("updateMemo")
              => LET update == Get(last.args.after)
                     data == Get(update.data)
                 IN  /\ last.ret = update.ret
                     /\ Get(last.ret).title = data.title
                     /\ Get(last.ret).content = data.content
                     /\ Get(last.ret).category =
                            (IF IsSome(data.category)
                             THEN Get(data.category)
                             ELSE Get(update.was).category)
                     /\ Get(last.ret).tags =
                            (IF IsSome(data.tags) THEN Get(data.tags) ELSE <<>>)
                     /\ Get(last.ret).updatedAt >= Get(update.was).updated_at)
    /\ [][\A c \in Callers :
              (Suspends(c, "updateMemo") /\ pending'[c].fault = "none")
                  => \A r \in EqId(memos', pending'[c].args.id) :
                         r.updated_at = clock]_vars

C4_Witness ==
    /\ HasReadBack("updateMemo")
    /\ IsSome(last.ret)
    /\ ~IsSome(Get(Get(last.args.after).data).category)
    /\ ~IsSome(Get(Get(last.args.after).data).tags)
    /\ Get(last.ret).category = "work"
    /\ Get(last.ret).tags = <<>>
    /\ Get(last.ret).updatedAt > Get(Get(last.args.after).was).updated_at

(* C5: a getMemoById(id) called after deleteMemo(id) has returned true     *)
(* returns null, whatever creates, updates and deletes other callers       *)
(* interleave.  A getMemoById whose storage call fails returns null        *)
(* whenever it is called, so it does after such a deleteMemo.              *)
C5_DeletedStaysNotFound ==
    (last.op = "getMemoById" /\ (last.fault # "none" \/ last.args.gone))
        => last.ret = None

C5_Witness ==
    /\ last.op = "getMemoById"
    /\ last.fault = "none"
    /\ last.args.gone
    /\ last.ret = None
    /\ memos # {}
    /\ \E c \in Callers : pending[c].op \in WriteOps

(* C6: getMemoById(m.id) right after a createMemo that returned m returns  *)
(* a memo equal to m in id, title, content, category, tags and createdAt.  *)
C6_ReadBackAfterCreate ==
    HasReadBack("createMemo")
        => LET m == Get(Get(last.args.after).ret)
           IN  /\ IsSome(last.ret)
               /\ Get(last.ret).id = m.id
               /\ Get(last.ret).title = m.title
               /\ Get(last.ret).content = m.content
               /\ Get(last.ret).category = m.category
               /\ Get(last.ret).tags = m.tags
               /\ Get(last.ret).createdAt = m.createdAt

C6_Witness ==
    /\ HasReadBack("createMemo")
    /\ IsSome(last.ret)
    /\ Get(last.ret).tags # <<>>
    /\ Get(last.ret).id = 2

(* C7: createMemo with category omitted stores category "personal" and     *)
(* reads it back; createMemo with tags omitted stores tags [] (not NULL)   *)
(* and reads back [].                                                      *)
C7_OmittedFieldsDefaulted ==
    /\ [][\A c \in Callers :
              (Suspends(c, "createMemo") /\ pending'[c].fault = "none")
                  => \A r \in memos' \ memos :
                         /\ ~IsSome(pending'[c].args.data.category)
                                => r.category = "personal"
                         /\ ~IsSome(pending'[c].args.data.tags)
                                => r.tags = Some(<<>>)]_vars
    /\ [](last.op = "createMemo" /\ IsSome(last.ret)
              => /\ ~IsSome(last.args.data.category)
                        => Get(last.ret).category = "personal"
                 /\ ~IsSome(last.args.data.tags)
                        => Get(last.ret).tags = <<>>)
    /\ [](HasReadBack("createMemo")
              => LET data == Get(Get(last.args.after).data)
                 IN  /\ IsSome(last.ret)
                     /\ ~IsSome(data.category)
                            => Get(last.ret).category = "personal"
                     /\ ~IsSome(data.tags)
                            => Get(last.ret).tags = <<>>)

C7_Witness ==
    /\ HasReadBack("createMemo")
    /\ IsSome(last.ret)
    /\ ~IsSome(Get(Get(last.args.after).data).category)
    /\ ~IsSome(Get(Get(last.args.after).data).tags)
    /\ Get(last.ret).category = "personal"
    /\ Get(last.ret).tags = <<>>

(* C8 as stated: the storage call of deleteMemo on an id that has no row,  *)
(* and that of updateMemo with a payload identical to the memo's title,    *)
(* content, category and tags, leave the stored rows, updated_at included, *)
(* as they were.                                                           *)
C8_NoOpsLeaveRowsUntouched ==
    [][\A c \in Callers :
          /\ (/\ Suspends(c, "deleteMemo")
              /\ pending'[c].fault = "none"
              /\ EqId(memos, pending'[c].args.id) = {})
                 => memos' = memos
          /\ (/\ Suspends(c, "updateMemo")
              /\ pending'[c].fault = "none"
              /\ IsSome(pending'[c].args.before)
              /\ IdenticalPayload(pending'[c].args.data,
                                  Get(pending'[c].args.before)))
                 => memos' = memos]_vars

(* C8 amended: the storage call of deleteMemo on an id that has no row     *)
(* leaves the stored rows as they were; that of updateMemo with an         *)
(* identical payload leaves every row as it was except the updated_at of   *)
(* the memo updated, which becomes the storage clock of the update.        *)
C8_NoOpsUpToUpdatedAt ==
    [][\A c \in Callers :
          /\ (/\ Suspends(c, "deleteMemo")
              /\ pending'[c].fault = "none"
              /\ EqId(memos, pending'[c].args.id) = {})
                 => memos' = memos
          /\ (/\ Suspends(c, "updateMemo")
              /\ pending'[c].fault = "none"
              /\ IsSome(pending'[c].args.before)
              /\ IdenticalPayload(pending'[c].args.data,
                                  Get(pending'[c].args.before)))
                 => LET before == Get(pending'[c].args.before)
                    IN  memos' = (memos \ {before})
                            \cup {[before EXCEPT !.updated_at = clock]}]_vars

C8_Witness ==
    /\ last.op = "updateMemo"
    /\ IsSome(last.ret)
    /\ IdenticalPayload(last.args.data, Get(last.args.before))
    /\ Get(last.ret).updatedAt > Get(last.args.before).updated_at
    /\ deleted # {}

(* C9: every stored memo has createdAt <= updatedAt, and the storage call  *)
(* of updateMemo never changes the id or the createdAt of a memo.          *)
C9_CreatedBeforeUpdated ==
    /\ [](\A r \in memos : r.created_at <= r.updated_at)
    /\ [][(\E c \in Callers : Suspends(c, "updateMemo") \/ Resumes(c, "updateMemo"))
              => { <<r.id, r.created_at>> : r \in memos' }
                     = { <<r.id, r.created_at>> : r \in memos }]_vars

C9_Witness ==
    /\ last.op = "updateMemo"
    /\ IsSome(last.ret)
    /\ Get(last.ret).createdAt < Get(last.ret).updatedAt
    /\ \E r \in memos : r.id = Get(last.ret).id /\ r.created_at < r.updated_at

(* C10: revalidatePath('/') is called by every createMemo, updateMemo and  *)
(* deleteMemo that succeeds, by no call that returns its failure sentinel  *)
(* and by no read operation; the read operations leave the rows unchanged. *)
C10_RevalidateOnSuccessfulWrite ==
    /\ [](last.op # "none"
              => (last.revalidated <=> (last.op \in WriteOps /\ ~IsSentinel(last))))
    /\ [][(\E c \in Callers, op \in ReadOps : Suspends(c, op) \/ Resumes(c, op))
              => memos' = memos]_vars

C10_Witness ==
    /\ last.op = "updateMemo"
    /\ last.fault = "none"
    /\ last.args.before = None
    /\ last.ret = None
    /\ ~last.revalidated
    /\ memos # {}

====
